---- MODULE Spec2Model ----
(***************************************************************************)
(* Model of Inefficient_Cluster-Costs_Report.v1.0.py: a five-stage report  *)
(* run (validate poll frequency, sign in, search clusters, fetch insights  *)
(* and flatten, write CSV).                                                *)
(*                                                                         *)
(* Python strings are modelled as sequences of one-character strings, so   *)
(* that emptiness, splitting on whitespace and joining are computed.       *)
(* Python values are tagged records [t, s, n]: t is the Python type,       *)
(* s the text of a str, n the number of an int, or of a float counted in   *)
(* thousandths.  A dict is a sequence of [k, v] pairs in insertion order.  *)
(***************************************************************************)
EXTENDS Integers, Sequences, FiniteSets, TLC

VARIABLES
    pc,                 \* position of main(): "stage1".."stage5", "end"
    term,               \* how the process ended: [kind, arg, site]
    unit,               \* unravelPollFreqUnit
    value,              \* unravelPollFreqValue
    keep_Insight_duplicates,
    pollFreqDict,       \* result of validate_poll_frequency
    authToken,          \* result of get_auth_token
    clusterDataList,    \* result of get_cluster_detail
    idx,                \* clusters of clusterDataList already handled by parse_cluster_data
    cluster_info_list,  \* rows accumulated by parse_cluster_data
    requests,           \* HTTP requests issued so far, in order
    responses,          \* HTTP responses received so far, in order
    csvFile,            \* the output file: [created, lines]
    stdout,             \* diagnostics printed so far
    fn_pc,              \* position of a single-function run
    fn_in,              \* its argument
    fn_out              \* its result

vars == <<pc, term, unit, value, keep_Insight_duplicates, pollFreqDict, authToken,
          clusterDataList, idx, cluster_info_list, requests, responses, csvFile,
          stdout, fn_pc, fn_in, fn_out>>

runVars == <<pc, term, unit, value, keep_Insight_duplicates, pollFreqDict, authToken,
             clusterDataList, idx, cluster_info_list, requests, responses, csvFile,
             stdout>>

fnVars == <<fn_pc, fn_in, fn_out>>

-----------------------------------------------------------------------------
(* Python values *)

PyStr(chars) == [t |-> "str", s |-> chars, n |-> 0]
PyInt(k) == [t |-> "int", s |-> <<>>, n |-> k]
PyFloat(thousandths) == [t |-> "float", s |-> <<>>, n |-> thousandths]
PyNone == [t |-> "none", s |-> <<>>, n |-> 0]

IsStr(v) == v.t = "str"
IsNumber(v) == v.t \in {"int", "float"}

Whitespace == {" "}

DigitChars == <<"0", "1", "2", "3", "4", "5", "6", "7", "8", "9">>

RECURSIVE NatToChars(_)
NatToChars(k) ==
    IF k < 10 THEN <<DigitChars[k + 1]>>
    ELSE NatToChars(k \div 10) \o <<DigitChars[(k % 10) + 1]>>

\* str(k) of a Python int
IntToChars(k) == IF k < 0 THEN <<"-">> \o NatToChars(0 - k) ELSE NatToChars(k)

\* str(x) of a Python float whose value is the integer k (1.0, 25.0, ...)
IntegralFloatToChars(k) == IntToChars(k) \o <<".", "0">>

\* sep.join(parts)
RECURSIVE Join(_, _)
Join(sep, parts) ==
    IF parts = <<>> THEN <<>>
    ELSE IF Len(parts) = 1 THEN parts[1]
    ELSE parts[1] \o sep \o Join(sep, Tail(parts))

-----------------------------------------------------------------------------
(* Module-level tables *)

Units == {"seconds", "minutes", "hours", "days", "weeks"}

errorCodesDict ==
    (0 :> "API: Your query returned 0 results")
    @@ (1 :> "Date/Time: Value Out of Bounds")
    @@ (3 :> "API: Your query resulted in an unknown error state")
    @@ (400 :> "Authentication failed: Invalid credentials")
    @@ (405 :> "API: Your target endpoint has an invalid configuration")

Running == [kind |-> "running", arg |-> "", site |-> ""]

\* exit(errorCodesDict[code]) at `site`: the subscript is evaluated first, so a
\* code missing from the table raises KeyError instead of exiting.
ExitWith(code, site) ==
    IF code \in DOMAIN errorCodesDict
    THEN [kind |-> "exit", arg |-> errorCodesDict[code], site |-> site]
    ELSE [kind |-> "exception", arg |-> "KeyError", site |-> site]

Raise(exc, site) == [kind |-> "exception", arg |-> exc, site |-> site]

-----------------------------------------------------------------------------
(* validate_poll_frequency *)

unravelPollFreqRangeDict ==
    [u \in Units |->
        CASE u = "seconds" -> 1 .. 299
          [] u = "minutes" -> 1 .. 719
          [] u = "hours" -> 1 .. 47
          [] u = "days" -> 1 .. 90
          [] u = "weeks" -> 1 .. 4]

\* validate_poll_frequency with range(1, n) taken to include n
validate_poll_frequency_StopIncluded(u, v) ==
    IF v \notin unravelPollFreqRangeDict[u] /\ (v - 1) \notin unravelPollFreqRangeDict[u]
    THEN [term |-> ExitWith(9, "validate_poll_frequency"), ret |-> <<>>]
    ELSE [term |-> Running, ret |-> <<[k |-> u, v |-> v]>>]

\* The outcome of the call: either the process ends (term) or lookback_dict,
\* the one-key dict {unit: value}, is returned.
validate_poll_frequency(u, v) ==
    IF v \notin unravelPollFreqRangeDict[u]
    THEN [term |-> ExitWith(9, "validate_poll_frequency"), ret |-> <<>>]
    ELSE [term |-> Running, ret |-> <<[k |-> u, v |-> v]>>]

-----------------------------------------------------------------------------
(* format_milliseconds *)

\* f"{x}" of one component: value is an int, or a float whose // 1000 is integral
ComponentChars(t, k) == IF t = "float" THEN IntegralFloatToChars(k) ELSE IntToChars(k)

\* value // 1000 : floor division; a float counts thousandths
WholeSeconds(v) == IF v.t = "float" THEN v.n \div 1000000 ELSE v.n \div 1000

\* format_milliseconds testing the components with >= 0
format_milliseconds_PrintsZero(v) ==
    LET seconds0 == WholeSeconds(v)
        days == seconds0 \div 86400
        seconds1 == seconds0 % 86400
        hours == seconds1 \div 3600
        seconds2 == seconds1 % 3600
        minutes == seconds2 \div 60
        seconds == seconds2 % 60
        parts ==
            (IF days > 0 THEN <<ComponentChars(v.t, days) \o <<"d">> >> ELSE <<>>)
            \o (IF hours > 0 THEN <<ComponentChars(v.t, hours) \o <<"h">> >> ELSE <<>>)
            \o (IF minutes >= 0 THEN <<ComponentChars(v.t, minutes) \o <<"m">> >> ELSE <<>>)
            \o (IF seconds > 0 THEN <<ComponentChars(v.t, seconds) \o <<"s">> >> ELSE <<>>)
    IN Join(<<" ">>, parts)

format_milliseconds(v) ==
    LET seconds0 == WholeSeconds(v)
        days == seconds0 \div 86400
        seconds1 == seconds0 % 86400
        hours == seconds1 \div 3600
        seconds2 == seconds1 % 3600
        minutes == seconds2 \div 60
        seconds == seconds2 % 60
        parts ==
            (IF days > 0 THEN <<ComponentChars(v.t, days) \o <<"d">> >> ELSE <<>>)
            \o (IF hours > 0 THEN <<ComponentChars(v.t, hours) \o <<"h">> >> ELSE <<>>)
            \o (IF minutes > 0 THEN <<ComponentChars(v.t, minutes) \o <<"m">> >> ELSE <<>>)
            \o (IF seconds > 0 THEN <<ComponentChars(v.t, seconds) \o <<"s">> >> ELSE <<>>)
    IN Join(<<" ">>, parts)

-----------------------------------------------------------------------------
(* dicts: sequences of [k, v] pairs in insertion order *)

DictKeys(d) == [i \in 1 .. Len(d) |-> d[i].k]

DictHas(d, key) == \E i \in 1 .. Len(d) : d[i].k = key

DictGet(d, key) == d[CHOOSE i \in 1 .. Len(d) : d[i].k = key].v

\* d[key] = val : an existing key keeps its position, a new key goes last
DictSet(d, key, val) ==
    IF DictHas(d, key)
    THEN [i \in 1 .. Len(d) |-> IF d[i].k = key THEN [k |-> key, v |-> val] ELSE d[i]]
    ELSE Append(d, [k |-> key, v |-> val])

-----------------------------------------------------------------------------
(* parse_cluster_data: the projection and formatting of one cluster record *)

fieldnames_dict ==
    << [k |-> "status_long", v |-> "Status"],
       [k |-> "name", v |-> "Cluster Name"],
       [k |-> "runName", v |-> "Job Name"],
       [k |-> "clusterType", v |-> "Cluster Type"],
       [k |-> "raw_user", v |-> "User"],
       [k |-> "queue", v |-> "Workspace"],
       [k |-> "start_time", v |-> "Start Time"],
       [k |-> "setupDuration", v |-> "Setup Duration"],
       [k |-> "duration_long", v |-> "Duration"],
       [k |-> "cost", v |-> "Cost"],
       [k |-> "dbus", v |-> "DBUs"] >>

SourceFields == {fieldnames_dict[i].k : i \in 1 .. Len(fieldnames_dict)}

\* key.get(k) on the filtered record: a cluster is a function from the field
\* names it carries to values
ClusterGet(cluster, k) == IF k \in DOMAIN cluster THEN cluster[k] ELSE PyNone

\* lines 304-310
NormalizeValue(v) ==
    IF IsStr(v) /\ v.s = <<>> THEN PyStr(<<"-">>)
    ELSE IF IsNumber(v) /\ v.n = 0 THEN PyNone
    ELSE v

\* lines 297-310: temp_dict after the loop over fieldnames_dict
ProjectFields(cluster) ==
    [i \in 1 .. Len(fieldnames_dict) |->
        [k |-> fieldnames_dict[i].v,
         v |-> NormalizeValue(ClusterGet(cluster, fieldnames_dict[i].k))]]

\* s.lstrip() on whitespace
RECURSIVE LStrip(_)
LStrip(s) == IF s # <<>> /\ Head(s) \in Whitespace THEN LStrip(Tail(s)) ELSE s

\* length of the leading run of non-whitespace characters
RECURSIVE WordLen(_)
WordLen(s) == IF s = <<>> \/ Head(s) \in Whitespace THEN 0 ELSE 1 + WordLen(Tail(s))

\* s.split(sep=None, maxsplit=1)
SplitOnce(s) ==
    LET a == LStrip(s)
        n == WordLen(a)
        rest == LStrip(SubSeq(a, n + 1, Len(a)))
    IN IF a = <<>> THEN <<>>
       ELSE IF rest = <<>> THEN <<SubSeq(a, 1, n)>>
       ELSE <<SubSeq(a, 1, n), rest>>

\* lines 313-315: [exc, d]; exc is "" or the exception that leaves the function
FormatStartTime(d) ==
    LET v == DictGet(d, "Start Time")
        parts == SplitOnce(v.s)
    IN IF v = PyStr(<<"-">>) THEN [exc |-> "", d |-> d]
       ELSE IF ~IsStr(v) THEN [exc |-> "AttributeError", d |-> d]
       ELSE IF Len(parts) # 2 THEN [exc |-> "ValueError", d |-> d]
       ELSE [exc |-> "",
             d |-> DictSet(d, "Start Time", PyStr(parts[2] \o <<",", " ">> \o parts[1]))]

\* lines 318-329: a duration field; [d, out] with out the diagnostics printed
FormatDuration(d, field) ==
    LET v == DictGet(d, field)
    IN IF v = PyNone THEN [d |-> d, out |-> <<>>]
       ELSE IF IsNumber(v)
            THEN [d |-> DictSet(d, field, PyStr(format_milliseconds(v))), out |-> <<>>]
       \* str // int raises TypeError, caught: the value stays as it was
       ELSE [d |-> d, out |-> <<"value not formatted">>]

\* round(x, 2) of a float counted in thousandths (a tie goes to the even
\* hundredth, as for ties that are exact in binary)
Round2(n) ==
    LET lower == (n \div 10) * 10
        r == n % 10
    IN IF r < 5 THEN lower
       ELSE IF r > 5 THEN lower + 10
       ELSE IF (n \div 10) % 2 = 0 THEN lower ELSE lower + 10

\* lines 332-343: Cost and DBUs; the DBUs handler prints nothing
FormatRounded(d, field) ==
    LET v == DictGet(d, field)
    IN IF v = PyNone THEN [d |-> d, out |-> <<>>]
       ELSE IF v.t = "float" THEN [d |-> DictSet(d, field, PyFloat(Round2(v.n))), out |-> <<>>]
       ELSE IF v.t = "int" THEN [d |-> d, out |-> <<>>]
       \* round(str, 2) raises TypeError, caught
       ELSE [d |-> d, out |-> IF field = "Cost" THEN <<"value not formatted">> ELSE <<>>]

\* lines 297-343: [exc, d, out]
FormatCluster(cluster) ==
    LET s0 == FormatStartTime(ProjectFields(cluster))
        s1 == FormatDuration(s0.d, "Setup Duration")
        s2 == FormatDuration(s1.d, "Duration")
        s3 == FormatRounded(s2.d, "Cost")
        s4 == FormatRounded(s3.d, "DBUs")
    IN IF s0.exc # "" THEN [exc |-> s0.exc, d |-> s0.d, out |-> <<>>]
       ELSE [exc |-> "", d |-> s4.d, out |-> s1.out \o s2.out \o s3.out \o s4.out]

-----------------------------------------------------------------------------
(* get_cluster_insights_by_app: the titles of one analysis response.        *)
(* A response is [status, isList, items]; an item is its "categories" dict, *)
(* a sequence of [k, instances] with instances the sequence of titles.      *)

RECURSIVE CategoryTitles(_)
CategoryTitles(categories) ==
    IF categories = <<>> THEN <<>>
    ELSE (IF Head(categories).k = <<>> THEN <<>> ELSE Head(categories).instances)
         \o CategoryTitles(Tail(categories))

RECURSIVE ItemsTitles(_)
ItemsTitles(items) ==
    IF items = <<>> THEN <<>>
    ELSE CategoryTitles(Head(items)) \o ItemsTitles(Tail(items))

get_cluster_insights_by_app(response) ==
    IF response.status = 200
    THEN IF ~response.isList THEN <<>> ELSE ItemsTitles(response.items)
    ELSE <<>>

\* a de-duplication that keeps the last occurrence of each title
RECURSIVE RemoveDuplicates_KeepsLast(_)
RemoveDuplicates_KeepsLast(titles) ==
    IF titles = <<>> THEN <<>>
    ELSE LET rest == RemoveDuplicates_KeepsLast(Tail(titles))
         IN IF \E i \in 1 .. Len(rest) : rest[i] = Head(titles)
            THEN rest ELSE <<Head(titles)>> \o rest

\* list(dict.fromkeys(titles))
RECURSIVE RemoveDuplicates(_)
RemoveDuplicates(titles) ==
    IF titles = <<>> THEN <<>>
    ELSE LET init == RemoveDuplicates(SubSeq(titles, 1, Len(titles) - 1))
             last == titles[Len(titles)]
         IN IF \E i \in 1 .. Len(init) : init[i] = last THEN init ELSE Append(init, last)

\* lines 354-355
RetainedInsights(keep, titles) == IF ~keep THEN RemoveDuplicates(titles) ELSE titles

\* rows that keep a cluster without insights as one row with no title
InsightRows_KeepsEmpty(temp_dict, insight_values) ==
    IF insight_values = <<>> THEN <<DictSet(temp_dict, "Insights", PyNone)>>
    ELSE [i \in 1 .. Len(insight_values) |->
            DictSet(temp_dict, "Insights", PyStr(insight_values[i]))]

\* lines 358-361: the rows one cluster adds
InsightRows(temp_dict, insight_values) ==
    [i \in 1 .. Len(insight_values) |->
        DictSet(temp_dict, "Insights", PyStr(insight_values[i]))]

-----------------------------------------------------------------------------
(* get_auth_token: a sign-in response is [status, hasToken, token] *)

\* get_auth_token that reports bad credentials without exiting
get_auth_token_NoExitOn400(response) ==
    IF response.status = 200 /\ ~response.hasToken
    THEN [term |-> Raise("KeyError", "get_auth_token"), ret |-> <<>>]
    ELSE IF response.status = 200 /\ response.token # <<>>
    THEN [term |-> Running, ret |-> <<"J", "W", "T", " ">> \o response.token]
    ELSE IF response.status = 400
    THEN [term |-> Running, ret |-> <<>>]
    ELSE IF response.status = 405
    THEN [term |-> ExitWith(405, "get_auth_token"), ret |-> <<>>]
    ELSE [term |-> ExitWith(3, "get_auth_token"), ret |-> <<>>]

get_auth_token(response) ==
    IF response.status = 200 /\ ~response.hasToken
    THEN [term |-> Raise("KeyError", "get_auth_token"), ret |-> <<>>]
    ELSE IF response.status = 200 /\ response.token # <<>>
    THEN [term |-> Running, ret |-> <<"J", "W", "T", " ">> \o response.token]
    ELSE IF response.status = 400
    THEN [term |-> ExitWith(400, "get_auth_token"), ret |-> <<>>]
    ELSE IF response.status = 405
    THEN [term |-> ExitWith(405, "get_auth_token"), ret |-> <<>>]
    ELSE [term |-> ExitWith(3, "get_auth_token"), ret |-> <<>>]

(* get_cluster_detail: a search response is [status, json, totalRecords,   *)
(* results]; json says whether the body parses as JSON                      *)

get_cluster_detail(response) ==
    IF response.status = 200 /\ response.totalRecords > 0
    THEN [term |-> Running, ret |-> response.results, out |-> <<>>]
    ELSE IF response.status = 200 /\ response.totalRecords = 0
    THEN [term |-> ExitWith(1, "get_cluster_detail"), ret |-> <<>>, out |-> <<>>]
    ELSE IF response.status = 422
    THEN [term |-> ExitWith(1, "get_cluster_detail"), ret |-> <<>>,
          out |-> <<"Query Response: message">>]
    ELSE IF response.status = 405
    THEN [term |-> ExitWith(4, "get_cluster_detail"), ret |-> <<>>, out |-> <<>>]
    ELSE IF ~response.json
    THEN [term |-> Raise("JSONDecodeError", "get_cluster_detail"), ret |-> <<>>, out |-> <<>>]
    ELSE [term |-> ExitWith(3, "get_cluster_detail"), ret |-> <<>>,
          out |-> <<"Query Response: raw">>]

-----------------------------------------------------------------------------
(* write_list_of_dicts_to_csv *)

\* the digits of the fraction k/1000 without trailing zeros, at least one
FractionChars(k) ==
    IF k % 100 = 0 THEN <<DigitChars[(k \div 100) + 1]>>
    ELSE IF k % 10 = 0 THEN <<DigitChars[(k \div 100) + 1], DigitChars[((k \div 10) % 10) + 1]>>
    ELSE <<DigitChars[(k \div 100) + 1], DigitChars[((k \div 10) % 10) + 1],
           DigitChars[(k % 10) + 1]>>

\* str(x) of a float counted in thousandths
FloatToChars(n) ==
    LET a == IF n < 0 THEN 0 - n ELSE n
    IN (IF n < 0 THEN <<"-">> ELSE <<>>)
       \o NatToChars(a \div 1000) \o <<".">> \o FractionChars(a % 1000)

\* the text csv writes for one value: None is the empty cell
CellText(v) ==
    CASE v.t = "str" -> v.s
      [] v.t = "none" -> <<>>
      [] v.t = "int" -> IntToChars(v.n)
      [] v.t = "float" -> FloatToChars(v.n)

\* the cells of one row under field_names (DictWriter: a missing key is '')
RowCells(field_names, row) ==
    [i \in 1 .. Len(field_names) |->
        IF DictHas(row, field_names[i]) THEN CellText(DictGet(row, field_names[i])) ELSE <<>>]

NoFile == [created |-> FALSE, lines |-> <<>>]

HeaderLine(field_names) == [kind |-> "header", cells |-> field_names]

DataLines(field_names, data) ==
    [i \in 1 .. Len(data) |-> [kind |-> "row", cells |-> RowCells(field_names, data[i])]]

\* write_list_of_dicts_to_csv with open() outside the try block
write_list_of_dicts_to_csv_OpenOutsideTry(data, fail, written) ==
    LET field_names == DictKeys(data[1])
        announce == <<"Writing rows of data to CSV">>
        failed == <<"Failed to write data to CSV file", "Message">>
    IN IF data = <<>>
       THEN [term |-> Raise("IndexError", "write_list_of_dicts_to_csv"),
             file |-> NoFile, out |-> <<>>]
       ELSE CASE fail = "open" ->
              [term |-> Raise("OSError", "write_list_of_dicts_to_csv"),
               file |-> NoFile, out |-> announce]
         [] fail = "header" ->
              [term |-> Running, file |-> [created |-> TRUE, lines |-> <<>>],
               out |-> announce \o failed]
         [] fail = "row" ->
              [term |-> Running,
               file |-> [created |-> TRUE,
                         lines |-> <<HeaderLine(field_names)>>
                                   \o SubSeq(DataLines(field_names, data), 1, written)],
               out |-> announce \o failed]
         [] fail = "none" ->
              [term |-> Running,
               file |-> [created |-> TRUE,
                         lines |-> <<HeaderLine(field_names)>>
                                   \o DataLines(field_names, data)],
               out |-> announce \o <<"Successfully output data", "Output data SUCCESS">>]

\* lines 205-229. `fail` is where the file system fails: "none", "open",
\* "header", or "row" after `written` data rows.  Result: how the call ends,
\* the file, and the diagnostics printed.
write_list_of_dicts_to_csv(data, fail, written) ==
    LET field_names == DictKeys(data[1])
        announce == <<"Writing rows of data to CSV">>
        failed == <<"Failed to write data to CSV file", "Message">>
    IN IF data = <<>>
       \* data[0] of an empty list, line 207
       THEN [term |-> Raise("IndexError", "write_list_of_dicts_to_csv"),
             file |-> NoFile, out |-> <<>>]
       ELSE CASE fail = "open" ->
              [term |-> Running, file |-> NoFile, out |-> announce \o failed]
         [] fail = "header" ->
              [term |-> Running, file |-> [created |-> TRUE, lines |-> <<>>],
               out |-> announce \o failed]
         [] fail = "row" ->
              [term |-> Running,
               file |-> [created |-> TRUE,
                         lines |-> <<HeaderLine(field_names)>>
                                   \o SubSeq(DataLines(field_names, data), 1, written)],
               out |-> announce \o failed]
         [] fail = "none" ->
              [term |-> Running,
               file |-> [created |-> TRUE,
                         lines |-> <<HeaderLine(field_names)>>
                                   \o DataLines(field_names, data)],
               out |-> announce \o <<"Successfully output data", "Output data SUCCESS">>]

-----------------------------------------------------------------------------
(* The environment: configurations and responses the run can meet *)

MaxClusters == 2

\* poll values of the validator's runs: -1 .. MaxPollValue
MaxPollValue == 721

\* insight titles of one cluster
MaxTitles == 4

\* days of a formatted duration
MaxDays == 2

\* data rows a failing writerows() may have written
MaxWritten == 1

\* poll frequencies of the full run: the unit as shipped, values below, at
\* the ends of and above its range
RunUnits == {"days"}
RunPollValues == {0, 1, 90, 91}

T_A == <<"A">>
T_B == <<"B">>
T_C == <<"C">>

BaseCluster ==
    [status_long |-> PyStr(<<"O", "K">>),
     name |-> PyStr(<<"c", "1">>),
     runName |-> PyStr(<<"j">>),
     clusterType |-> PyStr(<<"J", "o", "b">>),
     raw_user |-> PyStr(<<"u">>),
     queue |-> PyStr(<<"w">>),
     start_time |-> PyStr(<<"D", " ", "T">>),
     setupDuration |-> PyInt(61000),
     duration_long |-> PyInt(90061000),
     cost |-> PyFloat(1234),
     dbus |-> PyFloat(2500),
     clusterUid |-> <<"u", "1">>,
     id |-> <<"1">>]

\* start_time is absent
NoStartCluster ==
    [status_long |-> PyStr(<<"O", "K">>),
     name |-> PyStr(<<"c", "2">>),
     runName |-> PyStr(<<"j">>),
     clusterType |-> PyStr(<<"J", "o", "b">>),
     raw_user |-> PyStr(<<"u">>),
     queue |-> PyStr(<<"w">>),
     setupDuration |-> PyInt(61000),
     duration_long |-> PyInt(90061000),
     cost |-> PyFloat(1234),
     dbus |-> PyFloat(2500),
     clusterUid |-> <<"u", "2">>,
     id |-> <<"2">>]

\* start_time carries a date only
DateOnlyCluster ==
    [BaseCluster EXCEPT !.name = PyStr(<<"c", "3">>), !.start_time = PyStr(<<"D">>),
                        !.clusterUid = <<"u", "3">>, !.id = <<"3">>]

\* blank strings and zero numbers, dbus absent
BlankCluster ==
    [status_long |-> PyStr(<<>>),
     name |-> PyStr(<<>>),
     runName |-> PyStr(<<>>),
     clusterType |-> PyStr(<<>>),
     raw_user |-> PyStr(<<>>),
     queue |-> PyStr(<<>>),
     start_time |-> PyStr(<<>>),
     setupDuration |-> PyInt(0),
     duration_long |-> PyInt(0),
     cost |-> PyFloat(0),
     clusterUid |-> <<"u", "4">>,
     id |-> <<"4">>]

\* a whitespace-only name, numbers delivered as text, a duration below one second
TextCluster ==
    [BaseCluster EXCEPT !.name = PyStr(<<" ">>),
                        !.setupDuration = PyStr(<<"x">>), !.duration_long = PyInt(999),
                        !.cost = PyStr(<<"x">>), !.dbus = PyStr(<<"x">>),
                        !.clusterUid = <<"u", "5">>, !.id = <<"5">>]

ClusterRecords ==
    {BaseCluster, NoStartCluster, DateOnlyCluster, BlankCluster, TextCluster}

RECURSIVE SeqsUpTo(_, _)
SeqsUpTo(S, n) ==
    IF n = 0 THEN {<<>>}
    ELSE LET shorter == SeqsUpTo(S, n - 1)
         IN shorter \cup {Append(q, x) : q \in {r \in shorter : Len(r) = n - 1}, x \in S}

SignInResponses ==
    {[status |-> 200, hasToken |-> TRUE, token |-> <<"t">>],
     [status |-> 200, hasToken |-> TRUE, token |-> <<>>],
     [status |-> 200, hasToken |-> FALSE, token |-> <<>>],
     [status |-> 400, hasToken |-> FALSE, token |-> <<>>],
     [status |-> 405, hasToken |-> FALSE, token |-> <<>>],
     [status |-> 500, hasToken |-> FALSE, token |-> <<>>]}

\* the search is asked for 10000 records, so results carries all totalRecords
SearchResponses ==
    {[status |-> 200, json |-> TRUE, totalRecords |-> Len(r), results |-> r] :
        r \in SeqsUpTo(ClusterRecords, MaxClusters)}
    \cup {[status |-> st, json |-> TRUE, totalRecords |-> 0, results |-> <<>>] :
             st \in {422, 405, 500}}
    \cup {[status |-> 500, json |-> FALSE, totalRecords |-> 0, results |-> <<>>]}

Category(key, titles) == [k |-> key, instances |-> titles]

InsightResponses ==
    {[status |-> 404, isList |-> FALSE, items |-> <<>>],
     [status |-> 200, isList |-> FALSE, items |-> <<>>],
     [status |-> 200, isList |-> TRUE,
      items |-> << <<Category(<<"E">>, <<T_A, T_B>>)>> >>],
     [status |-> 200, isList |-> TRUE,
      items |-> << <<Category(<<"E">>, <<T_A, T_B>>), Category(<<>>, <<T_C>>)>>,
                   <<Category(<<"B">>, <<T_A, T_C>>)>> >>]}

-----------------------------------------------------------------------------
(* main: one action per stage; stage 4 takes one step per cluster, each    *)
(* step issuing that cluster's request                                     *)

Post(endpoint, body) == [method |-> "POST", endpoint |-> endpoint, arg |-> body]
Get(endpoint, clusterUid, id) ==
    [method |-> "GET", endpoint |-> endpoint, arg |-> <<clusterUid, id>>]

IdleFn == fn_pc = "idle" /\ fn_in = <<>> /\ fn_out = <<>>

\* the state main() starts in, the configuration apart
StartOfRun ==
    /\ pc = "stage1"
    /\ term = Running
    /\ pollFreqDict = <<>>
    /\ authToken = <<>>
    /\ clusterDataList = <<>>
    /\ idx = 0
    /\ cluster_info_list = <<>>
    /\ requests = <<>>
    /\ responses = <<>>
    /\ csvFile = NoFile
    /\ stdout = <<>>

Init ==
    /\ StartOfRun
    /\ unit \in RunUnits
    /\ value \in RunPollValues
    /\ keep_Insight_duplicates \in BOOLEAN
    /\ IdleFn

\* lines 405-408
Stage1 ==
    /\ pc = "stage1" /\ term.kind = "running"
    /\ LET r == validate_poll_frequency(unit, value)
       IN /\ term' = r.term
          /\ pollFreqDict' = r.ret
          /\ pc' = IF r.term.kind = "running" THEN "stage2" ELSE pc
          /\ stdout' = stdout \o (IF r.term.kind = "running" THEN <<"Stage 1 SUCCESS">>
                                  ELSE <<"Poll Frequency is outside the acceptable range">>)
    /\ UNCHANGED <<unit, value, keep_Insight_duplicates, authToken, clusterDataList, idx,
                   cluster_info_list, requests, responses, csvFile, fnVars>>

\* lines 413-421
Stage2 ==
    /\ pc = "stage2" /\ term.kind = "running"
    /\ \E response \in SignInResponses :
          LET r == get_auth_token(response)
          IN /\ requests' = Append(requests, Post("webSignIn", <<>>))
             /\ responses' = Append(responses, response)
             /\ term' = r.term
             /\ authToken' = r.ret
             /\ pc' = IF r.term.kind = "running" THEN "stage3" ELSE pc
             /\ stdout' = stdout \o (IF r.term.kind = "running" THEN <<"Stage 2 SUCCESS">>
                                     ELSE <<>>)
    /\ UNCHANGED <<unit, value, keep_Insight_duplicates, pollFreqDict, clusterDataList, idx,
                   cluster_info_list, csvFile, fnVars>>

\* lines 426-430, and 435 when the search succeeded
Stage3 ==
    /\ pc = "stage3" /\ term.kind = "running"
    /\ \E response \in SearchResponses :
          LET r == get_cluster_detail(response)
          IN /\ requests' = Append(requests, Post("unifiedsearch", pollFreqDict))
             /\ responses' = Append(responses, response)
             /\ term' = r.term
             /\ clusterDataList' = r.ret
             /\ pc' = IF r.term.kind # "running" THEN pc
                      ELSE IF r.ret = <<>> THEN "stage5" ELSE "stage4"
             /\ stdout' = stdout \o r.out
                          \o (IF r.term.kind = "running" THEN <<"Stage 3 SUCCESS">> ELSE <<>>)
    /\ UNCHANGED <<unit, value, keep_Insight_duplicates, pollFreqDict, authToken, idx,
                   cluster_info_list, csvFile, fnVars>>

\* stage 4 asking a second time when the analysis answers with an error status
Stage4_RetriesFailedInsight ==
    /\ pc = "stage4" /\ term.kind = "running"
    /\ idx < Len(clusterDataList)
    /\ LET cluster == clusterDataList[idx + 1]
           f == FormatCluster(cluster)
           request == Get("analysis", cluster.clusterUid, cluster.id)
       IN IF f.exc # ""
          THEN /\ term' = Raise(f.exc, "parse_cluster_data")
               /\ UNCHANGED <<pc, idx, cluster_info_list, requests, responses, stdout>>
          ELSE \E response \in InsightResponses :
                  LET insight_values ==
                          RetainedInsights(keep_Insight_duplicates,
                                           get_cluster_insights_by_app(response))
                  IN /\ requests' = IF response.status = 200
                                    THEN Append(requests, request)
                                    ELSE requests \o <<request, request>>
                     /\ responses' = Append(responses, response)
                     /\ cluster_info_list' =
                            cluster_info_list \o InsightRows(f.d, insight_values)
                     /\ idx' = idx + 1
                     /\ pc' = IF idx + 1 = Len(clusterDataList) THEN "stage5" ELSE pc
                     /\ stdout' = stdout \o f.out
                                  \o (IF idx + 1 = Len(clusterDataList)
                                      THEN <<"Stage 4 SUCCESS">> ELSE <<>>)
                     /\ UNCHANGED term
    /\ UNCHANGED <<unit, value, keep_Insight_duplicates, pollFreqDict, authToken,
                   clusterDataList, csvFile, fnVars>>

\* lines 295-361 for the next cluster, and 437-438 after the last one
Stage4 ==
    /\ pc = "stage4" /\ term.kind = "running"
    /\ idx < Len(clusterDataList)
    /\ LET cluster == clusterDataList[idx + 1]
           f == FormatCluster(cluster)
       IN IF f.exc # ""
          THEN /\ term' = Raise(f.exc, "parse_cluster_data")
               /\ UNCHANGED <<pc, idx, cluster_info_list, requests, responses, stdout>>
          ELSE \E response \in InsightResponses :
                  LET insight_values ==
                          RetainedInsights(keep_Insight_duplicates,
                                           get_cluster_insights_by_app(response))
                  IN /\ requests' = Append(requests,
                                           Get("analysis", cluster.clusterUid, cluster.id))
                     /\ responses' = Append(responses, response)
                     /\ cluster_info_list' =
                            cluster_info_list \o InsightRows(f.d, insight_values)
                     /\ idx' = idx + 1
                     /\ pc' = IF idx + 1 = Len(clusterDataList) THEN "stage5" ELSE pc
                     /\ stdout' = stdout \o f.out
                                  \o (IF idx + 1 = Len(clusterDataList)
                                      THEN <<"Stage 4 SUCCESS">> ELSE <<>>)
                     /\ UNCHANGED term
    /\ UNCHANGED <<unit, value, keep_Insight_duplicates, pollFreqDict, authToken,
                   clusterDataList, csvFile, fnVars>>

\* lines 443-446 and 453
Stage5 ==
    /\ pc = "stage5" /\ term.kind = "running"
    /\ \E fail \in {"none", "open", "header", "row"} :
       \E written \in 0 .. MaxWritten :
          /\ fail = "row" => written < Len(cluster_info_list)
          /\ fail # "row" => written = 0
          /\ LET r == write_list_of_dicts_to_csv(cluster_info_list, fail, written)
             IN /\ csvFile' = r.file
                /\ IF r.term.kind = "running"
                   THEN /\ stdout' = stdout \o r.out
                                     \o <<"Stage 5 SUCCESS", "Total execution time">>
                        /\ pc' = "end"
                        /\ term' = [kind |-> "normal", arg |-> "", site |-> ""]
                   ELSE /\ stdout' = stdout \o r.out
                        /\ pc' = pc
                        /\ term' = r.term
    /\ UNCHANGED <<unit, value, keep_Insight_duplicates, pollFreqDict, authToken,
                   clusterDataList, idx, cluster_info_list, requests, responses, fnVars>>

Next == Stage1 \/ Stage2 \/ Stage3 \/ Stage4 \/ Stage5

Spec == Init /\ [][Next]_vars

-----------------------------------------------------------------------------
(* The run up to the sign-in response, over the whole range of poll values *)

InitPoll ==
    /\ StartOfRun
    /\ unit \in Units
    /\ value \in (0 - 1) .. MaxPollValue
    /\ keep_Insight_duplicates = FALSE
    /\ IdleFn

NextPoll == Stage1 \/ Stage2

SpecPoll == InitPoll /\ [][NextPoll]_vars

-----------------------------------------------------------------------------
(* Single calls of the pure functions *)

NoRun ==
    /\ pc = "none"
    /\ term = Running
    /\ unit = "days"
    /\ value = 90
    /\ keep_Insight_duplicates = FALSE
    /\ pollFreqDict = <<>>
    /\ authToken = <<>>
    /\ clusterDataList = <<>>
    /\ idx = 0
    /\ cluster_info_list = <<>>
    /\ requests = <<>>
    /\ responses = <<>>
    /\ csvFile = NoFile
    /\ stdout = <<>>

\* durations whose components are 0, 1 or the largest value of the component
MsInputs ==
    {((((d * 24 + h) * 60 + m) * 60 + sec) * 1000) + r :
        d \in 0 .. MaxDays, h \in {0, 1, 23}, m \in {0, 1, 59}, sec \in {0, 1, 59},
        r \in {0, 999}}

InitFormat ==
    /\ NoRun
    /\ fn_pc = "call"
    /\ fn_in \in MsInputs
    /\ fn_out = <<>>

CallFormatMilliseconds ==
    /\ fn_pc = "call"
    /\ fn_out' = format_milliseconds(PyInt(fn_in))
    /\ fn_pc' = "done"
    /\ UNCHANGED <<fn_in, runVars>>

SpecFormat == InitFormat /\ [][CallFormatMilliseconds]_vars

InitDedup ==
    /\ NoRun
    /\ fn_pc = "call"
    /\ fn_in \in [keep : BOOLEAN, titles : SeqsUpTo({T_A, T_B, T_C}, MaxTitles)]
    /\ fn_out = <<>>

\* lines 354-355 on the titles fetched for one cluster
CallRemoveDuplicates ==
    /\ fn_pc = "call"
    /\ fn_out' = RetainedInsights(fn_in.keep, fn_in.titles)
    /\ fn_pc' = "done"
    /\ UNCHANGED <<fn_in, runVars>>

SpecDedup == InitDedup /\ [][CallRemoveDuplicates]_vars

-----------------------------------------------------------------------------
(* Properties *)

Fatal == term.kind \in {"exit", "exception"}

InDocumentedRange(u, v) ==
    CASE u = "seconds" -> 1 <= v /\ v <= 299
      [] u = "minutes" -> 1 <= v /\ v <= 719
      [] u = "hours" -> 1 <= v /\ v <= 47
      [] u = "days" -> 1 <= v /\ v <= 90
      [] u = "weeks" -> 1 <= v /\ v <= 4

\* C1: once the validator has run, the poll value was accepted exactly when it
\* lies in the documented inclusive range of its unit, and then the result is
\* the one-key mapping {unit: value}; otherwise the run has ended inside the
\* validator and no request was issued.
C1_ValidatorAcceptsExactlyInRange ==
    LET acted == pc # "stage1" \/ term.kind # "running"
    IN /\ ~acted => pollFreqDict = <<>> /\ requests = <<>>
       /\ (acted /\ InDocumentedRange(unit, value)) =>
             /\ pollFreqDict = <<[k |-> unit, v |-> value]>>
             /\ term.site # "validate_poll_frequency"
             /\ pc # "stage1"
       /\ (acted /\ ~InDocumentedRange(unit, value)) =>
             /\ Fatal
             /\ term.site = "validate_poll_frequency"
             /\ pollFreqDict = <<>>
             /\ requests = <<>>
             /\ pc = "stage1"

\* days = 91 was rejected and the run has ended without a request
C1_Witness ==
    /\ unit = "days" /\ value = 91
    /\ Fatal /\ term.site = "validate_poll_frequency"
    /\ requests = <<>>

\* C2: every fatal end of the validator, the sign-in or the search is an exit
\* carrying the error-table entry of its cause.
C2_FatalPathsExitWithTableEntry ==
    LET last == responses[Len(responses)]
        expected ==
            CASE term.site = "validate_poll_frequency" -> errorCodesDict[1]
              [] term.site = "get_auth_token" ->
                    IF last.status = 400 THEN errorCodesDict[400]
                    ELSE IF last.status = 405 THEN errorCodesDict[405]
                    ELSE errorCodesDict[3]
              [] term.site = "get_cluster_detail" ->
                    IF last.status = 200 /\ last.totalRecords = 0 THEN errorCodesDict[0]
                    ELSE IF last.status = 405 THEN errorCodesDict[405]
                    ELSE errorCodesDict[3]
    IN (Fatal /\ term.site \in {"validate_poll_frequency", "get_auth_token",
                                "get_cluster_detail"})
          => (term.kind = "exit" /\ term.arg = expected)

SignInSucceeded(r) == r.status = 200 /\ r.hasToken /\ r.token # <<>>

SearchSucceeded(r) == r.status = 200 /\ r.totalRecords > 0

\* C3: after a rejected poll value no request is issued; after a sign-in
\* response other than a success the sign-in is the only request; after a
\* failed search (zero results included) no insight request follows; and in
\* each of these runs the run has ended and no CSV file exists.
C3_FatalStopsTheRun ==
    LET signInFailed == Len(responses) >= 1 /\ ~SignInSucceeded(responses[1])
        searchFailed == Len(responses) >= 2 /\ ~SearchSucceeded(responses[2])
    IN /\ ~InDocumentedRange(unit, value) => requests = <<>> /\ csvFile = NoFile
       /\ signInFailed =>
             /\ Len(requests) = 1 /\ requests[1].endpoint = "webSignIn"
             /\ Fatal /\ pc = "stage2" /\ csvFile = NoFile
       /\ searchFailed =>
             /\ Len(requests) = 2 /\ requests[2].endpoint = "unifiedsearch"
             /\ Fatal /\ pc = "stage3" /\ csvFile = NoFile
       /\ Fatal => csvFile = NoFile

\* the sign-in answered 400 and the run has exited after that one request
C3_Witness ==
    /\ Len(responses) = 1 /\ responses[1].status = 400
    /\ term.kind = "exit" /\ Len(requests) = 1

\* C4: no run ends inside stage 4: a cluster whose insight request fails or
\* whose field cannot be formatted is passed over, and the run goes on.
C4_EnrichmentErrorsNeverAbort ==
    /\ pc = "stage4" => term.kind = "running"
    /\ \A i \in 1 .. idx :
          responses[2 + i].status # 200 => get_cluster_insights_by_app(responses[2 + i]) = <<>>

\* the formatted projection of the i-th cluster and the titles retained for it
ClusterTempDict(i) == FormatCluster(clusterDataList[i]).d

ClusterTitles(i) ==
    RetainedInsights(keep_Insight_duplicates, get_cluster_insights_by_app(responses[2 + i]))

\* the number of rows of the clusters before the i-th
RECURSIVE RowsBefore(_)
RowsBefore(i) == IF i <= 1 THEN 0 ELSE RowsBefore(i - 1) + Len(ClusterTitles(i - 1))

ReportHeader ==
    <<"Status", "Cluster Name", "Job Name", "Cluster Type", "User", "Workspace",
      "Start Time", "Setup Duration", "Duration", "Cost", "DBUs", "Insights">>

\* two clusters, the first with two distinct retained titles, the second with none
TwoClusterExample ==
    /\ Len(clusterDataList) = 2 /\ idx = 2
    /\ Len(ClusterTitles(1)) = 2 /\ ClusterTitles(1)[1] # ClusterTitles(1)[2]
    /\ ClusterTitles(2) = <<>>

\* C5: the rows are, cluster by cluster and title by title, the cluster's
\* projected fields followed by the title under "Insights"; a cluster without
\* titles adds no row; in the two-cluster example the report has two rows, both
\* of the first cluster, under the 11 renamed fields and "Insights".
C5_OneRowPerInsight ==
    /\ Len(cluster_info_list) = RowsBefore(idx + 1)
    /\ \A i \in 1 .. idx : \A j \in 1 .. Len(ClusterTitles(i)) :
          cluster_info_list[RowsBefore(i) + j]
             = Append(ClusterTempDict(i), [k |-> "Insights", v |-> PyStr(ClusterTitles(i)[j])])
    /\ TwoClusterExample =>
          /\ Len(cluster_info_list) = 2
          /\ \A r \in 1 .. 2 : SubSeq(cluster_info_list[r], 1, 11) = ClusterTempDict(1)
          /\ csvFile.lines # <<>> => csvFile.lines[1].cells = ReportHeader
          /\ (pc = "end" /\ stdout[Len(stdout) - 2] = "Output data SUCCESS") =>
                /\ Len(csvFile.lines) = 3
                /\ csvFile.lines[2].kind = "row" /\ csvFile.lines[3].kind = "row"

\* the two-cluster example, written out in full
C5_Witness ==
    /\ TwoClusterExample
    /\ pc = "end"
    /\ Len(csvFile.lines) = 3

FirstIndex(seq, x) == CHOOSE i \in 1 .. Len(seq) : seq[i] = x /\ \A j \in 1 .. i - 1 : seq[j] # x

Elements(seq) == {seq[i] : i \in 1 .. Len(seq)}

\* C6: with the keep-duplicates flag off the retained titles are the distinct
\* fetched titles, each once, in the order of their first occurrence; with the
\* flag on they are the fetched titles unchanged.
C6_DedupKeepsFirstOccurrences ==
    fn_pc = "done" =>
       /\ fn_in.keep => fn_out = fn_in.titles
       /\ ~fn_in.keep =>
             /\ \A i, j \in 1 .. Len(fn_out) : i # j => fn_out[i] # fn_out[j]
             /\ Elements(fn_out) = Elements(fn_in.titles)
             /\ \A i, j \in 1 .. Len(fn_out) :
                   i < j => FirstIndex(fn_in.titles, fn_out[i]) < FirstIndex(fn_in.titles, fn_out[j])
       /\ (~fn_in.keep /\ fn_in.titles = <<T_A, T_B, T_A, T_C>>) => fn_out = <<T_A, T_B, T_C>>

\* [A, B, A, C] with the flag off gave [A, B, C]
C6_Witness ==
    /\ fn_pc = "done"
    /\ fn_in = [keep |-> FALSE, titles |-> <<T_A, T_B, T_A, T_C>>]
    /\ fn_out = <<T_A, T_B, T_C>>

\* the components of ms, largest first
DurationComponents(ms) ==
    LET s == ms \div 1000
    IN << [n |-> s \div 86400, u |-> "d"],
          [n |-> (s \div 3600) % 24, u |-> "h"],
          [n |-> (s \div 60) % 60, u |-> "m"],
          [n |-> s % 60, u |-> "s"] >>

NonZero(c) == c.n # 0

\* C7: the result is the non-zero components of ms in the order d, h, m, s,
\* each as <n><unit>, joined by single spaces; it is empty exactly when all
\* components are zero; the five documented examples hold.
C7_FormatMilliseconds ==
    fn_pc = "done" =>
       LET shown == SelectSeq(DurationComponents(fn_in), NonZero)
       IN /\ fn_out = Join(<<" ">>, [i \in 1 .. Len(shown) |-> NatToChars(shown[i].n) \o <<shown[i].u>>])
          /\ (fn_out = <<>>) <=> (\A i \in 1 .. 4 : DurationComponents(fn_in)[i].n = 0)
          /\ fn_in = 0 => fn_out = <<>>
          /\ fn_in = 1000 => fn_out = <<"1", "s">>
          /\ fn_in = 61000 => fn_out = <<"1", "m", " ", "1", "s">>
          /\ fn_in = 3661000 => fn_out = <<"1", "h", " ", "1", "m", " ", "1", "s">>
          /\ fn_in = 90061000 =>
                fn_out = <<"1", "d", " ", "1", "h", " ", "1", "m", " ", "1", "s">>

\* 90061000 ms gave "1d 1h 1m 1s"
C7_Witness ==
    /\ fn_pc = "done"
    /\ fn_in = 90061000
    /\ fn_out = <<"1", "d", " ", "1", "h", " ", "1", "m", " ", "1", "s">>

IsBlank(chars) == \A i \in 1 .. Len(chars) : chars[i] \in Whitespace

\* C8: a record does not stop the run because its start_time is blank, zero
\* or absent, and in every row a blank source string (empty or only
\* whitespace) appears as "-" and a zero or absent source value as None.
C8_NormalizationCompletes ==
    /\ (Fatal /\ term.site = "parse_cluster_data") =>
          LET v == ClusterGet(clusterDataList[idx + 1], "start_time")
          IN ~(v = PyNone \/ (IsNumber(v) /\ v.n = 0) \/ (IsStr(v) /\ IsBlank(v.s)))
    /\ \A i \in 1 .. idx : \A j \in 1 .. Len(ClusterTitles(i)) :
       \A m \in 1 .. Len(fieldnames_dict) :
          LET src == ClusterGet(clusterDataList[i], fieldnames_dict[m].k)
              out == DictGet(cluster_info_list[RowsBefore(i) + j], fieldnames_dict[m].v)
          IN /\ (IsStr(src) /\ IsBlank(src.s)) => out = PyStr(<<"-">>)
             /\ (src = PyNone \/ (IsNumber(src) /\ src.n = 0)) => out = PyNone

InStdout(msg) == \E i \in 1 .. Len(stdout) : stdout[i] = msg

\* C9: a file that has lines starts with the header, the keys of the first
\* row in order, and only data rows follow; with rows to write, stage 5 never
\* ends the run abnormally: whatever fails in opening or writing, the run ends
\* normally after printing either the failure or the success.
C9_CsvWriterHeaderFirstAndNonFatal ==
    /\ csvFile.lines # <<>> =>
          /\ csvFile.lines[1] = [kind |-> "header", cells |-> DictKeys(cluster_info_list[1])]
          /\ \A i \in 2 .. Len(csvFile.lines) : csvFile.lines[i].kind = "row"
    /\ (cluster_info_list # <<>> /\ pc \in {"stage5", "end"}) => ~Fatal
    /\ pc = "end" =>
          /\ term.kind = "normal"
          /\ stdout[Len(stdout)] = "Total execution time"
          /\ InStdout("Failed to write data to CSV file") # InStdout("Output data SUCCESS")
          /\ Len(csvFile.lines) < 1 + Len(cluster_info_list)
                => InStdout("Failed to write data to CSV file")

\* the file could not be opened, and the run ended normally
C9_Witness ==
    /\ pc = "end"
    /\ ~csvFile.created
    /\ term.kind = "normal"
    /\ InStdout("Failed to write data to CSV file")

ExpectedRequests ==
    <<Post("webSignIn", <<>>), Post("unifiedsearch", pollFreqDict)>>
    \o [i \in 1 .. Len(clusterDataList) |->
           Get("analysis", clusterDataList[i].clusterUid, clusterDataList[i].id)]

StageOrder ==
    {<<"stage1", "stage2">>, <<"stage2", "stage3">>, <<"stage3", "stage4">>,
     <<"stage4", "stage5">>, <<"stage5", "end">>}

RequestsInOrder ==
    /\ Len(requests) <= Len(ExpectedRequests)
    /\ \A i \in 1 .. Len(requests) : requests[i] = ExpectedRequests[i]
    /\ pc \in {"stage5", "end"} => requests = ExpectedRequests
    /\ csvFile # NoFile => pc = "end"
    /\ pc \in {"stage2", "stage3", "stage4", "stage5", "end"} => pollFreqDict # <<>>
    /\ pc = "stage2" => (Len(requests) = 0 \/ Fatal)
    /\ pc \in {"stage3", "stage4", "stage5", "end"} => authToken # <<>>
    /\ pc = "stage3" => (Len(requests) = 1 \/ Fatal)
    /\ pc \in {"stage4", "stage5", "end"} => clusterDataList # <<>>
    /\ pc = "stage4" => Len(requests) = 2 + idx
    /\ pc \in {"stage5", "end"} => idx = Len(clusterDataList)

\* C10: the position of the run only moves to the next stage, a stage is
\* reached only with the previous stage's result, and the requests issued are
\* always a prefix of: one sign-in POST, one search POST, one insight GET per
\* cluster of the search result in result order; the CSV stage starts, and the
\* file is touched, only when all of them were issued.
C10_StagesInOrderRequestsOnce ==
    /\ []RequestsInOrder
    /\ [][pc' # pc => <<pc, pc'>> \in StageOrder]_vars

\* a run over two clusters has ended after four requests
C10_Witness ==
    /\ pc = "end"
    /\ Len(clusterDataList) = 2
    /\ Len(requests) = 4

\* C11: whenever the run stands at the CSV stage, after a search that returned
\* records and whatever the analysis answered for each cluster, the row list
\* handed to the writer is not empty, so that its first row exists to give the
\* header.
C11_RowListNonEmptyAtCsvStage ==
    (pc = "stage5" /\ SearchSucceeded(responses[2]) /\ idx = Len(clusterDataList))
       => cluster_info_list # <<>>

====
